---- MODULE Spec2Model ----
(***************************************************************************)
(* Model of Speech_to_Text_tool/audio_processor.py (class AudioProcessor): *)
(* Vietnamese normalisation, sentence splitting, Ratcliff-Obershelp ratio, *)
(* the exact/fuzzy matching cascades, the composite similarity with its    *)
(* cache, the validator and the per-segment loop of process_segment_folder.*)
(*                                                                         *)
(* A text is a sequence of characters; a character is a one-token string.  *)
(* Precomposed Vietnamese letters are written base+marks: oC is U+00F4,    *)
(* oH is U+01A1, oHG is U+1EDD, oG is U+00F2, eD is U+1EB9, aG is U+00E0;  *)
(* dS is U+0111 (d with stroke, no decomposition); the combining marks are *)
(* ~C (U+0302), ~G (U+0300), ~H (U+031B), ~D (U+0323); the ellipsis is     *)
(* written U+2026.                                                         *)
(* Floats are modelled as exact rationals <<numerator, denominator>>.      *)
(***************************************************************************)
EXTENDS Integers, Sequences, FiniteSets, TLC

VARIABLES
    pc,                 \* position of the running operation
    entry,              \* the method the caller entered
    transcribed_text,   \* the query: one segment's ASR text
    original_transcript, \* the reference corpus handed to the matcher
    result,             \* what the matcher returned (or raised), with its stage trail
    final_text,         \* process_segment_folder: final_text
    status,             \* process_segment_folder: status
    accuracy,           \* process_segment_folder: accuracy
    validation,         \* validate_improvement: its arguments, return and the score it read
    boost_calls,        \* how many times the loop body invoked a booster
    files_done,         \* audio files the loop has finished
    similarity_cache,   \* self._similarity_cache, in insertion order
    hash_of,            \* Python's hash() of this process, on the texts in play
    wratio_of,          \* rapidfuzz's fuzz.WRatio answers seen so far
    call                \* calculate_enhanced_similarity: the last call and its return

vars == <<pc, entry, transcribed_text, original_transcript, result, final_text, status,
          accuracy, validation, boost_calls, files_done, similarity_cache,
          hash_of, wratio_of, call>>

-----------------------------------------------------------------------------
(* Sequences *)

Min(a, b) == IF a <= b THEN a ELSE b
Max(a, b) == IF a >= b THEN a ELSE b

\* F applied to the value of e: a local name whose value is computed once
With(e, F(_)) == CHOOSE r \in {F(x) : x \in {e}} : TRUE

\* the sequence f as a tuple of its values
Tuple(f) == f \o <<>>

RECURSIVE Flatten(_)
Flatten(ss) == IF ss = <<>> THEN <<>> ELSE Head(ss) \o Flatten(Tail(ss))

Range(s) == {s[i] : i \in 1..Len(s)}

-----------------------------------------------------------------------------
(* Rationals: <<n, d>> with d > 0 *)

RECURSIVE GCD(_, _)
GCD(a, b) == IF b = 0 THEN a ELSE With(a % b, LAMBDA r : GCD(b, r))

Rat(n, d) ==
    With(<<n, d>>, LAMBDA p :
    With(GCD(p[1], p[2]), LAMBDA g :
        IF g = 0 THEN <<0, 1>> ELSE <<p[1] \div g, p[2] \div g>>))

RAdd(x, y) ==
    With(<<x, y>>, LAMBDA p :
    With(GCD(p[1][2], p[2][2]), LAMBDA g :
        Rat(p[1][1] * (p[2][2] \div g) + p[2][1] * (p[1][2] \div g),
            (p[1][2] \div g) * p[2][2])))

RMul(x, y) ==
    With(<<x, y>>, LAMBDA p :
    With(<<Rat(p[1][1], p[2][2]), Rat(p[2][1], p[1][2])>>, LAMBDA c :
        Rat(c[1][1] * c[2][1], c[1][2] * c[2][2])))

RLt(x, y) ==
    With(<<x, y>>, LAMBDA p :
    With(GCD(p[1][2], p[2][2]), LAMBDA g :
        p[1][1] * (p[2][2] \div g) < p[2][1] * (p[1][2] \div g)))

RLe(x, y) == ~RLt(y, x)
RMax(x, y) == With(<<x, y>>, LAMBDA p : IF RLt(p[1], p[2]) THEN p[2] ELSE p[1])

-----------------------------------------------------------------------------
(* Characters: what str.lower, str.isspace and unicodedata say of them *)

Whitespace == {" ", "\n"}
Terminal == {".", "!", "?", "U+2026"}

Lower(c) ==
    CASE c = "H" -> "h" [] c = "T" -> "t" [] c = "N" -> "n" [] c = "L" -> "l"
      [] c = "DS" -> "dS" [] c = "OC" -> "oC"
      [] OTHER -> c

\* canonical decomposition of one character (unicodedata: NFD)
Decomposition(c) ==
    CASE c = "oC" -> <<"o", "~C">>
      [] c = "OC" -> <<"O", "~C">>
      [] c = "oH" -> <<"o", "~H">>
      [] c = "oHG" -> <<"o", "~H", "~G">>
      [] c = "oG" -> <<"o", "~G">>
      [] c = "eD" -> <<"e", "~D">>
      [] c = "aG" -> <<"a", "~G">>
      [] OTHER -> <<c>>

\* canonical combining class; the marks are the characters of category Mn
CombiningClass(c) ==
    CASE c = "~H" -> 216 [] c = "~D" -> 220 [] c = "~C" -> 230 [] c = "~G" -> 230
      [] OTHER -> 0

IsMn(c) == CombiningClass(c) # 0

\* primary composites: starter and mark to the precomposed character
Composite(s, m) ==
    CASE s = "o" /\ m = "~C" -> "oC"
      [] s = "O" /\ m = "~C" -> "OC"
      [] s = "o" /\ m = "~H" -> "oH"
      [] s = "oH" /\ m = "~G" -> "oHG"
      [] s = "o" /\ m = "~G" -> "oG"
      [] s = "e" /\ m = "~D" -> "eD"
      [] s = "a" /\ m = "~G" -> "aG"
      [] OTHER -> ""

-----------------------------------------------------------------------------
(* unicodedata.normalize *)

RECURSIVE InsertMark(_, _)
\* canonical ordering: m goes after the marks of class <= its own
InsertMark(run, m) ==
    IF run = <<>> \/ CombiningClass(run[Len(run)]) <= CombiningClass(m)
    THEN Append(run, m)
    ELSE Append(InsertMark(SubSeq(run, 1, Len(run) - 1), m), run[Len(run)])

RECURSIVE Reorder(_, _, _)
\* s with each run of marks sorted by class, stably; done is finished, run the open run
Reorder(s, done, run) ==
    IF s = <<>> THEN done \o run
    ELSE IF IsMn(Head(s)) THEN Reorder(Tail(s), done, InsertMark(run, Head(s)))
    ELSE Reorder(Tail(s), Append(done \o run, Head(s)), <<>>)

\* a text of characters that neither decompose nor combine is its own normal form
Plain(s) == \A i \in 1..Len(s) : Decomposition(s[i]) = <<s[i]>> /\ ~IsMn(s[i])

NFD(s) ==
    IF Plain(s) THEN s
    ELSE Reorder(Flatten(Tuple([i \in 1..Len(s) |-> Decomposition(s[i])])), <<>>, <<>>)

RECURSIVE Compose(_, _, _, _)
\* canonical composition of a decomposed s: done is closed, starter the open
\* starter ("" when none), pending the marks after it that did not combine
Compose(s, done, starter, pending) ==
    LET flush == IF starter = "" THEN done \o pending
                 ELSE Append(done, starter) \o pending
    IN
    IF s = <<>> THEN flush
    ELSE LET c == Head(s)
             blocked == pending # <<>>
                        /\ CombiningClass(pending[Len(pending)]) >= CombiningClass(c)
         IN IF ~IsMn(c) THEN Compose(Tail(s), flush, c, <<>>)
            ELSE IF starter # "" /\ ~blocked /\ Composite(starter, c) # ""
                 THEN Compose(Tail(s), done, Composite(starter, c), pending)
            ELSE Compose(Tail(s), done, starter, Append(pending, c))

NFC(s) == IF Plain(s) THEN s ELSE Compose(NFD(s), <<>>, "", <<>>)

-----------------------------------------------------------------------------
(* str methods and re.sub(r"\s+", " ", s) *)

RECURSIVE LStrip(_)
LStrip(s) == IF s # <<>> /\ Head(s) \in Whitespace THEN LStrip(Tail(s)) ELSE s

RECURSIVE RStrip(_)
RStrip(s) == IF s # <<>> /\ s[Len(s)] \in Whitespace
             THEN RStrip(SubSeq(s, 1, Len(s) - 1)) ELSE s

Strip(s) == RStrip(LStrip(s))

LowerText(s) == Tuple([i \in 1..Len(s) |-> Lower(s[i])])

Indices(s) == Tuple([i \in 1..Len(s) |-> i])

\* every run of whitespace becomes one space
CollapseWhitespace(s) ==
    With(SelectSeq(Indices(s),
                   LAMBDA i : s[i] \notin Whitespace \/ i = 1
                                 \/ s[i - 1] \notin Whitespace), LAMBDA kept :
        Tuple([k \in 1..Len(kept) |->
                 IF s[kept[k]] \in Whitespace THEN " " ELSE s[kept[k]]]))

\* str.split(): the maximal runs of non-whitespace
Words(s) ==
    With(SelectSeq(Indices(s),
                   LAMBDA i : s[i] \notin Whitespace
                                 /\ (i = 1 \/ s[i - 1] \in Whitespace)), LAMBDA first :
    With(SelectSeq(Indices(s),
                   LAMBDA i : s[i] \notin Whitespace
                                 /\ (i = Len(s) \/ s[i + 1] \in Whitespace)), LAMBDA last :
        Tuple([k \in 1..Len(first) |-> SubSeq(s, first[k], last[k])])))

WordSet(s) == Range(Words(s))

-----------------------------------------------------------------------------
(* normalize_vi *)

\* a normal form that also folds d with stroke to d and drops punctuation
normalize_vi_ascii(s, strip_tone) ==
    With(CollapseWhitespace(LowerText(Strip(NFC(s)))), LAMBDA n :
    With(SelectSeq(NFD(n), LAMBDA ch : ~IsMn(ch) /\ ch \notin Terminal), LAMBDA bare :
    With(Tuple([i \in 1..Len(bare) |-> IF bare[i] = "dS" THEN "d" ELSE bare[i]]),
         LAMBDA folded :
        IF strip_tone THEN Strip(NFC(folded)) ELSE n)))

normalize_vi(s, strip_tone) ==
    With(CollapseWhitespace(LowerText(Strip(NFC(s)))), LAMBDA n :
        IF strip_tone
        THEN NFC(SelectSeq(NFD(n), LAMBDA ch : ~IsMn(ch)))
        ELSE n)

-----------------------------------------------------------------------------
(* split_sentences_vi: re.split(r'(?<=[\.\!\?U+2026])\s+|\n+', text) *)

RECURSIVE RunEnd(_, _, _)
\* the first index >= i of s whose character is not in set (Len(s) + 1 if none)
RunEnd(s, i, set) ==
    IF i <= Len(s) /\ s[i] \in set THEN RunEnd(s, i + 1, set) ELSE i

RECURSIVE SentenceParts(_, _, _)
\* the pieces between the separators; cur is the open piece, i the scan position
SentenceParts(s, i, cur) ==
    IF i > Len(s) THEN <<cur>>
    ELSE IF i > 1 /\ s[i - 1] \in Terminal /\ s[i] \in Whitespace
         THEN <<cur>> \o SentenceParts(s, RunEnd(s, i, Whitespace), <<>>)
    ELSE IF s[i] = "\n"
         THEN <<cur>> \o SentenceParts(s, RunEnd(s, i, {"\n"}), <<>>)
    ELSE SentenceParts(s, i + 1, Append(cur, s[i]))

StripAll(parts) == Tuple([i \in 1..Len(parts) |-> Strip(parts[i])])

split_sentences_vi(text) ==
    SelectSeq(StripAll(SentenceParts(text, 1, <<>>)), LAMBDA p : p # <<>>)

-----------------------------------------------------------------------------
(* difflib.SequenceMatcher(None, a, b).ratio(), for len(b) < 200 (below the *)
(* autojunk heuristic), indices 1-based and inclusive                       *)

RECURSIVE CommonRun(_, _, _, _, _, _)
\* how far a[i..ahi] and b[j..bhi] agree from their first characters
CommonRun(a, b, i, j, ahi, bhi) ==
    IF i > ahi \/ j > bhi \/ a[i] # b[j] THEN 0
    ELSE 1 + CommonRun(a, b, i + 1, j + 1, ahi, bhi)

\* the longest matching block of a[alo..ahi] and b[blo..bhi]: of the longest,
\* the one that starts earliest in a, and of those the earliest in b
find_longest_match(a, b, alo, ahi, blo, bhi) ==
    With({p \in (alo..ahi) \X (blo..bhi) :
             /\ a[p[1]] = b[p[2]]
             /\ (p[1] = alo \/ p[2] = blo \/ a[p[1] - 1] # b[p[2] - 1])}, LAMBDA starts :
    With({<<CommonRun(a, b, p[1], p[2], ahi, bhi), p[1], p[2]>> : p \in starts}, LAMBDA blocks :
        IF blocks = {} THEN <<0, alo, blo>>
        ELSE
        With(CHOOSE n \in {x[1] : x \in blocks} : \A x \in blocks : x[1] <= n, LAMBDA size :
        With(CHOOSE n \in {x[2] : x \in blocks} :
                /\ <<size, n>> \in {<<x[1], x[2]>> : x \in blocks}
                /\ \A x \in blocks : x[1] = size => n <= x[2], LAMBDA i :
        With(CHOOSE n \in {x[3] : x \in blocks} :
                /\ <<size, i, n>> \in blocks
                /\ \A x \in blocks : (x[1] = size /\ x[2] = i) => n <= x[3], LAMBDA j :
            <<size, i, j>>)))))

RECURSIVE MatchingChars(_, _, _, _, _, _)
\* get_matching_blocks: the sizes of the blocks, summed
MatchingChars(a, b, alo, ahi, blo, bhi) ==
    IF alo > ahi \/ blo > bhi THEN 0
    ELSE With(find_longest_match(a, b, alo, ahi, blo, bhi), LAMBDA m :
             IF m[1] = 0 THEN 0
             ELSE With(<<m[2] - 1, m[3] - 1, m[2] + m[1], m[3] + m[1]>>, LAMBDA cut :
                      m[1] + MatchingChars(a, b, alo, cut[1], blo, cut[2])
                           + MatchingChars(a, b, cut[3], ahi, cut[4], bhi)))

difflib_ratio(a, b) ==
    With(<<Tuple(a), Tuple(b)>>, LAMBDA t :
        IF Len(t[1]) + Len(t[2]) = 0 THEN <<1, 1>>
        ELSE Rat(2 * MatchingChars(t[1], t[2], 1, Len(t[1]), 1, Len(t[2])),
                 Len(t[1]) + Len(t[2])))

-----------------------------------------------------------------------------
(* fuzzy_score_vi, exact_matches_vi, fuzzy_topk_vi *)

\* a score that follows the flag: the ratio of the normal forms strip_tone asks for
fuzzy_score_vi_flagged(query, candidate, strip_tone) ==
    difflib_ratio(normalize_vi(query, strip_tone), normalize_vi(candidate, strip_tone))

fuzzy_score_vi(query, candidate, strip_tone) ==
    LET a1 == normalize_vi(query, FALSE)
        b1 == normalize_vi(candidate, FALSE)
        a2 == normalize_vi(query, TRUE)
        b2 == normalize_vi(candidate, TRUE)
    IN  RMax(difflib_ratio(a1, b1), difflib_ratio(a2, b2))

\* the hits in reverse sentence order
exact_matches_vi_latest(query, sentences, strip_tone) ==
    With(normalize_vi(query, strip_tone), LAMBDA qn :
    With(SelectSeq([i \in 1..Len(sentences) |-> Len(sentences) + 1 - i],
                   LAMBDA i : normalize_vi(sentences[i], strip_tone) = qn), LAMBDA idxs :
        Tuple([h \in 1..Len(idxs) |->
                 [index |-> idxs[h] - 1, sentence |-> sentences[idxs[h]],
                  score |-> <<1, 1>>]])))

\* the hits carrying the normal form ns in place of the sentence s
exact_matches_vi_normalized(query, sentences, strip_tone) ==
    With(normalize_vi(query, strip_tone), LAMBDA qn :
    With(SelectSeq([i \in 1..Len(sentences) |-> i],
                   LAMBDA i : normalize_vi(sentences[i], strip_tone) = qn), LAMBDA idxs :
        Tuple([h \in 1..Len(idxs) |->
                 [index |-> idxs[h] - 1,
                  sentence |-> normalize_vi(sentences[idxs[h]], strip_tone),
                  score |-> <<1, 1>>]])))

\* the hits in sentence order; index is Python's 0-based idx
exact_matches_vi(query, sentences, strip_tone) ==
    With(normalize_vi(query, strip_tone), LAMBDA qn :
    With(SelectSeq([i \in 1..Len(sentences) |-> i],
                   LAMBDA i : normalize_vi(sentences[i], strip_tone) = qn), LAMBDA idxs :
        Tuple([h \in 1..Len(idxs) |->
                 [index |-> idxs[h] - 1, sentence |-> sentences[idxs[h]],
                  score |-> <<1, 1>>]])))

RECURSIVE SortedByScoreLatest(_, _)
\* a sort that puts an entry before the entries of its score
SortedByScoreLatest(out, rest) ==
    IF rest = <<>> THEN out
    ELSE With(Head(rest), LAMBDA e :
         With(Cardinality({i \in 1..Len(out) : RLt(e.score, out[i].score)}), LAMBDA keep :
         With(SubSeq(out, 1, keep) \o <<e>> \o SubSeq(out, keep + 1, Len(out)), LAMBDA merged :
             SortedByScoreLatest(merged, Tail(rest)))))

RECURSIVE SortedByScore(_, _)
\* scored.sort(key=score, reverse=True): stable, so equal scores keep idx order;
\* out is sorted so far, rest still to insert
SortedByScore(out, rest) ==
    IF rest = <<>> THEN out
    ELSE With(Head(rest), LAMBDA e :
         With(Cardinality({i \in 1..Len(out) : RLe(e.score, out[i].score)}), LAMBDA keep :
         With(SubSeq(out, 1, keep) \o <<e>> \o SubSeq(out, keep + 1, Len(out)), LAMBDA merged :
             SortedByScore(merged, Tail(rest)))))

fuzzy_topk_vi(query, sentences, topk, strip_tone) ==
    With(Tuple([i \in 1..Len(sentences) |->
                  [score |-> fuzzy_score_vi(query, sentences[i], strip_tone),
                   index |-> i - 1, sentence |-> sentences[i]]]), LAMBDA scored :
    With(SortedByScore(<<>>, scored), LAMBDA sorted :
    With(SubSeq(sorted, 1, Min(Len(sorted), Max(0, topk))), LAMBDA top :
        Tuple([i \in 1..Len(top) |->
                 [rank |-> i, score |-> top[i].score, index |-> top[i].index,
                  sentence |-> top[i].sentence]]))))

-----------------------------------------------------------------------------
(* _parse_sentences_for_cache: the sentences longer than 10 characters. Of  *)
(* the precomputed fields only 'text' is ever read, and only it is kept.    *)

_parse_sentences_for_cache(text) ==
    With(SelectSeq(StripAll(split_sentences_vi(text)),
                   LAMBDA x : x # <<>> /\ Len(x) > 10), LAMBDA sentences :
        Tuple([i \in 1..Len(sentences) |-> [text |-> sentences[i]]]))

-----------------------------------------------------------------------------
(* References and outcomes.  A reference is None ("none"), "" or a text      *)
(* ("text"), {} ("empty_dict"), a transcript_cache entry {'full_text',       *)
(* 'sentences'} ("parsed"), or a dict that has no 'sentences' ("dict").      *)

NoReference == [shape |-> "none", full_text |-> <<>>, sentences |-> <<>>]
TextReference(text) == [shape |-> "text", full_text |-> text, sentences |-> <<>>]
DictReference(text) == [shape |-> "dict", full_text |-> text, sentences |-> <<>>]
EmptyDict == [shape |-> "empty_dict", full_text |-> <<>>, sentences |-> <<>>]

\* _load_all_transcripts: the cache entry of one transcript file
ParsedReference(file_text) ==
    With(Strip(file_text), LAMBDA content :
        [shape |-> "parsed", full_text |-> content,
         sentences |-> _parse_sentences_for_cache(content)])

\* Python's "not x" of a reference
Falsy(x) == \/ x.shape \in {"none", "empty_dict"}
            \/ x.shape = "text" /\ x.full_text = <<>>

\* a cascade's return: the value, the stage that returned it (0: none cleared)
\* and the score of the candidate; trail lists the cascades that ran
Returned(value, cascade, stage, score) ==
    [kind |-> "return", value |-> value, exc |-> "", stage |-> stage, score |-> score,
     trail |-> <<[cascade |-> cascade, stage |-> stage]>>]

Raised(exc, cascade) ==
    [kind |-> "raise", value |-> <<>>, exc |-> exc, stage |-> 0, score |-> <<0, 1>>,
     trail |-> <<[cascade |-> cascade, stage |-> 0]>>]

-----------------------------------------------------------------------------
(* ultra_fast_match *)

\* a guard that lets every candidate through
fast_guard_open(transcribed, candidate, score, strip_tone, overlap_floor, score_floor) ==
    TRUE

\* lines 194-201 and 213-219: both word sets non-empty, and the share of the
\* query's words found in the candidate above overlap_floor or the score above
\* score_floor
fast_guard(transcribed, candidate, score, strip_tone, overlap_floor, score_floor) ==
    With(WordSet(normalize_vi(transcribed, strip_tone)), LAMBDA trans_words :
    With(WordSet(normalize_vi(candidate, strip_tone)), LAMBDA cand_words :
        /\ trans_words # {}
        /\ cand_words # {}
        /\ \/ RLt(overlap_floor,
                  Rat(Cardinality(trans_words \cap cand_words), Cardinality(trans_words)))
           \/ RLt(score_floor, score)))

fast_sentences(transcript_data) ==
    IF transcript_data.shape = "parsed"
    THEN [i \in 1..Len(transcript_data.sentences) |-> transcript_data.sentences[i].text]
    ELSE split_sentences_vi(transcript_data.full_text)

ultra_fast_match(transcribed, transcript_data) ==
    IF Falsy(transcript_data) \/ transcribed = <<>>
    THEN Returned(transcribed, "ultra_fast_match", 0, <<0, 1>>)
    ELSE
    With(Tuple(fast_sentences(transcript_data)), LAMBDA sentences :
    IF sentences = <<>>
    THEN Returned(transcribed, "ultra_fast_match", 0, <<0, 1>>)
    ELSE
    With(exact_matches_vi(transcribed, sentences, FALSE), LAMBDA exact_hits :
    IF exact_hits # <<>>
    THEN Returned(exact_hits[1].sentence, "ultra_fast_match", 1, <<1, 1>>)
    ELSE
    With(exact_matches_vi(transcribed, sentences, TRUE), LAMBDA exact_hits_notone :
    IF exact_hits_notone # <<>>
    THEN Returned(exact_hits_notone[1].sentence, "ultra_fast_match", 2, <<1, 1>>)
    ELSE
    With(fuzzy_topk_vi(transcribed, sentences, 3, FALSE), LAMBDA fuzzy_candidates :
    IF /\ fuzzy_candidates # <<>>
       /\ RLt(<<7, 10>>, fuzzy_candidates[1].score)
       /\ fast_guard(transcribed, fuzzy_candidates[1].sentence,
                     fuzzy_candidates[1].score, FALSE, <<3, 10>>, <<85, 100>>)
    THEN Returned(fuzzy_candidates[1].sentence, "ultra_fast_match", 3,
                  fuzzy_candidates[1].score)
    ELSE
    With(fuzzy_topk_vi(transcribed, sentences, 3, TRUE), LAMBDA fuzzy_candidates_notone :
    IF /\ fuzzy_candidates_notone # <<>>
       /\ RLt(<<6, 10>>, fuzzy_candidates_notone[1].score)
       /\ fast_guard(transcribed, fuzzy_candidates_notone[1].sentence,
                     fuzzy_candidates_notone[1].score, TRUE, <<25, 100>>, <<8, 10>>)
    THEN Returned(fuzzy_candidates_notone[1].sentence, "ultra_fast_match", 4,
                  fuzzy_candidates_notone[1].score)
    ELSE Returned(transcribed, "ultra_fast_match", 0, <<0, 1>>))))))

-----------------------------------------------------------------------------
(* simple_sentence_match *)

\* line 364: the split sentences longer than 3 characters
simple_sentences(reference_text) ==
    SelectSeq(StripAll(split_sentences_vi(reference_text)),
              LAMBDA x : x # <<>> /\ Len(x) > 3)

\* lines 391-396 and 407-411: candidate words over query words within [lo, hi]
simple_guard(transcribed, candidate, lo, hi) ==
    With(Len(Words(transcribed)), LAMBDA trans_length :
    With(Len(Words(candidate)), LAMBDA cand_length :
    With(IF trans_length > 0 THEN Rat(cand_length, trans_length) ELSE <<1, 1>>,
         LAMBDA length_ratio :
        RLe(lo, length_ratio) /\ RLe(length_ratio, hi))))

simple_sentence_match(transcribed, reference_text) ==
    IF Falsy(reference_text) \/ transcribed = <<>>
    THEN Returned(transcribed, "simple_sentence_match", 0, <<0, 1>>)
    ELSE IF reference_text.shape # "text"
    THEN Raised("TypeError", "simple_sentence_match")  \* re.split on a dict
    ELSE
    With(Tuple(simple_sentences(reference_text.full_text)), LAMBDA sentences :
    IF sentences = <<>>
    THEN Returned(transcribed, "simple_sentence_match", 0, <<0, 1>>)
    ELSE
    With(exact_matches_vi(transcribed, sentences, FALSE), LAMBDA exact_hits :
    IF exact_hits # <<>>
    THEN Returned(exact_hits[1].sentence, "simple_sentence_match", 1, <<1, 1>>)
    ELSE
    With(exact_matches_vi(transcribed, sentences, TRUE), LAMBDA exact_hits_notone :
    IF exact_hits_notone # <<>>
    THEN Returned(exact_hits_notone[1].sentence, "simple_sentence_match", 2, <<1, 1>>)
    ELSE
    With(fuzzy_topk_vi(transcribed, sentences, 5, FALSE), LAMBDA fuzzy_candidates :
    IF /\ fuzzy_candidates # <<>>
       /\ RLt(<<6, 10>>, fuzzy_candidates[1].score)
       /\ simple_guard(transcribed, fuzzy_candidates[1].sentence, <<3, 10>>, <<4, 1>>)
    THEN Returned(fuzzy_candidates[1].sentence, "simple_sentence_match", 3,
                  fuzzy_candidates[1].score)
    ELSE
    With(fuzzy_topk_vi(transcribed, sentences, 5, TRUE), LAMBDA fuzzy_candidates_notone :
    IF /\ fuzzy_candidates_notone # <<>>
       /\ RLt(<<5, 10>>, fuzzy_candidates_notone[1].score)
       /\ simple_guard(transcribed, fuzzy_candidates_notone[1].sentence,
                       <<2, 10>>, <<5, 1>>)
    THEN Returned(fuzzy_candidates_notone[1].sentence, "simple_sentence_match", 4,
                  fuzzy_candidates_notone[1].score)
    ELSE Returned(transcribed, "simple_sentence_match", 0, <<0, 1>>))))))

-----------------------------------------------------------------------------
(* find_best_match *)

\* a dispatcher that always re-splits the full text
find_best_match_resplit(transcribed, reference_text) ==
    IF Falsy(reference_text) \/ transcribed = <<>>
    THEN [Returned(transcribed, "find_best_match", 0, <<0, 1>>) EXCEPT !.trail = <<>>]
    ELSE IF reference_text.shape = "parsed"
    THEN simple_sentence_match(transcribed, TextReference(reference_text.full_text))
    ELSE simple_sentence_match(transcribed, reference_text)

find_best_match(transcribed, reference_text) ==
    IF Falsy(reference_text) \/ transcribed = <<>>
    THEN [Returned(transcribed, "find_best_match", 0, <<0, 1>>) EXCEPT !.trail = <<>>]
    ELSE IF reference_text.shape = "parsed"
    THEN With(ultra_fast_match(transcribed, reference_text), LAMBDA fast_result :
             IF fast_result.value # transcribed
             THEN fast_result
             ELSE With(simple_sentence_match(
                           transcribed, TextReference(reference_text.full_text)),
                       LAMBDA simple :
                      [simple EXCEPT !.trail = fast_result.trail \o simple.trail]))
    ELSE simple_sentence_match(transcribed, reference_text)

-----------------------------------------------------------------------------
(* calculate_enhanced_similarity *)

\* hash(text).  hash_of gives the hash of the texts whose hashes may coincide;
\* every other text has a hash of its own, written as the text itself.
Hash(text) == IF text \in DOMAIN hash_of THEN hash_of[text] ELSE text

\* f"{hash(text1)}_{hash(text2)}"
cache_key(text1, text2) == <<Hash(text1), Hash(text2)>>

CachedKeys(cache) == {cache[i].key : i \in 1..Len(cache)}
CachedValue(cache, key) == cache[CHOOSE i \in 1..Len(cache) : cache[i].key = key].value

\* the scores fuzz.WRatio may answer; rapidfuzz is not part of the repository
WVals == {0, 50, 100}

\* fuzz.WRatio(s1, s2): 0 for an empty string, 100 for equal strings, else the
\* answer wratio gives for the pair
WRatio(wratio, s1, s2) ==
    IF s1 = <<>> \/ s2 = <<>> THEN 0
    ELSE IF s1 = s2 THEN 100
    ELSE wratio[<<s1, s2>>]

\* the pairs of normal forms fuzz.WRatio has not been asked yet, among calls
UnknownPairs(wratio, calls) ==
    {p \in {<<normalize_vi(c[1], FALSE), normalize_vi(c[2], FALSE)>> : c \in calls} :
        /\ p[1] # <<>>
        /\ p[2] # <<>>
        /\ p[1] # p[2]
        /\ p \notin DOMAIN wratio}

\* self._similarity_cache above this size loses its oldest entries
CacheCap == 3000
EvictCount == 500

\* the weights 0.55, 0.25 and 0.20
combined_score_reweighted(wratio, text1, text2) ==
    With(fuzzy_score_vi(text1, text2, FALSE), LAMBDA vi_fuzzy_score :
    With(normalize_vi(text1, FALSE), LAMBDA norm_text1 :
    With(normalize_vi(text2, FALSE), LAMBDA norm_text2 :
    With(Rat(WRatio(wratio, norm_text1, norm_text2), 100), LAMBDA wr :
    With(WordSet(norm_text1), LAMBDA words1 :
    With(WordSet(norm_text2), LAMBDA words2 :
    With(IF words1 # {} /\ words2 # {}
         THEN Rat(Cardinality(words1 \cap words2), Cardinality(words1 \cup words2))
         ELSE <<0, 1>>, LAMBDA jaccard :
    With(Len(Words(norm_text1)), LAMBDA len1 :
    With(Len(Words(norm_text2)), LAMBDA len2 :
    With(IF Max(len1, len2) > 0
         THEN Rat(Min(len1, len2), Max(len1, len2))
         ELSE <<1, 1>>, LAMBDA length_penalty :
        RMul(RAdd(RAdd(RMul(vi_fuzzy_score, <<55, 100>>), RMul(wr, <<25, 100>>)),
                  RMul(jaccard, <<20, 100>>)),
             length_penalty)))))))))))

\* lines 252-276: the score computed on a cache miss
combined_score(wratio, text1, text2) ==
    With(fuzzy_score_vi(text1, text2, FALSE), LAMBDA vi_fuzzy_score :
    With(normalize_vi(text1, FALSE), LAMBDA norm_text1 :
    With(normalize_vi(text2, FALSE), LAMBDA norm_text2 :
    With(Rat(WRatio(wratio, norm_text1, norm_text2), 100), LAMBDA wr :
    With(WordSet(norm_text1), LAMBDA words1 :
    With(WordSet(norm_text2), LAMBDA words2 :
    With(IF words1 # {} /\ words2 # {}
         THEN Rat(Cardinality(words1 \cap words2), Cardinality(words1 \cup words2))
         ELSE <<0, 1>>, LAMBDA jaccard :
    With(Len(Words(norm_text1)), LAMBDA len1 :
    With(Len(Words(norm_text2)), LAMBDA len2 :
    With(IF Max(len1, len2) > 0
         THEN Rat(Min(len1, len2), Max(len1, len2))
         ELSE <<1, 1>>, LAMBDA length_penalty :
        RMul(RAdd(RAdd(RMul(vi_fuzzy_score, <<5, 10>>), RMul(wr, <<3, 10>>)),
                  RMul(jaccard, <<2, 10>>)),
             length_penalty)))))))))))

\* the newest entries deleted in place of the oldest
calculate_enhanced_similarity_lifo(cache, wratio, text1, text2) ==
    IF text1 = <<>> \/ text2 = <<>>
    THEN [value |-> <<0, 1>>, hit |-> FALSE, cache |-> cache]
    ELSE
    With(cache_key(text1, text2), LAMBDA key :
    IF key \in CachedKeys(cache)
    THEN [value |-> CachedValue(cache, key), hit |-> TRUE, cache |-> cache]
    ELSE
    With(combined_score(wratio, text1, text2), LAMBDA combined :
    With(Append(cache, [key |-> key, value |-> combined]), LAMBDA stored :
        [value |-> combined, hit |-> FALSE,
         cache |-> IF Len(stored) > CacheCap
                   THEN SubSeq(stored, 1, Len(stored) - EvictCount)
                   ELSE stored])))

\* the call on cache: what it returns, whether the key was found, the cache after
calculate_enhanced_similarity(cache, wratio, text1, text2) ==
    IF text1 = <<>> \/ text2 = <<>>
    THEN [value |-> <<0, 1>>, hit |-> FALSE, cache |-> cache]
    ELSE
    With(cache_key(text1, text2), LAMBDA key :
    IF key \in CachedKeys(cache)
    THEN [value |-> CachedValue(cache, key), hit |-> TRUE, cache |-> cache]
    ELSE
    With(combined_score(wratio, text1, text2), LAMBDA combined :
    With(Append(cache, [key |-> key, value |-> combined]), LAMBDA stored :
        [value |-> combined, hit |-> FALSE,
         cache |-> IF Len(stored) > CacheCap
                   THEN SubSeq(stored, EvictCount + 1, Len(stored))
                   ELSE stored])))

-----------------------------------------------------------------------------
(* validate_improvement.  The word counts are compared as the floats of      *)
(* orig_len * 0.2, * 0.4, * 8 and * 3 compare, which for counts of this size *)
(* is the comparison of the exact products.  read tells whether the score    *)
(* was asked for, score is the similarity returned then.                     *)

\* the check of a much shorter candidate left out
validate_improvement_unchecked_short(cache, wratio, original, candidate) ==
    With(Len(Words(original)), LAMBDA orig_len :
    With(Len(Words(candidate)), LAMBDA cand_len :
    With(FALSE, LAMBDA short :
    With(cand_len > orig_len * 3, LAMBDA long :
    IF cand_len * 10 < orig_len * 2 \/ cand_len > orig_len * 8
    THEN [ok |-> FALSE, read |-> FALSE, score |-> <<0, 1>>, cache |-> cache]
    ELSE IF ~(short \/ long)
    THEN [ok |-> TRUE, read |-> FALSE, score |-> <<0, 1>>, cache |-> cache]
    ELSE
    With(calculate_enhanced_similarity(cache, wratio, original, candidate),
         LAMBDA similarity :
        [ok |-> ~(\/ (short /\ RLt(similarity.value, <<2, 10>>))
                 \/ (long /\ RLt(similarity.value, <<3, 10>>))),
         read |-> TRUE, score |-> similarity.value, cache |-> similarity.cache])))))

\* the length rule rejecting at the bounds too (<= and >=)
validate_improvement_exclusive(cache, wratio, original, candidate) ==
    With(Len(Words(original)), LAMBDA orig_len :
    With(Len(Words(candidate)), LAMBDA cand_len :
    With(cand_len * 10 < orig_len * 4, LAMBDA short :
    With(cand_len > orig_len * 3, LAMBDA long :
    IF cand_len * 10 <= orig_len * 2 \/ cand_len >= orig_len * 8
    THEN [ok |-> FALSE, read |-> FALSE, score |-> <<0, 1>>, cache |-> cache]
    ELSE IF ~(short \/ long)
    THEN [ok |-> TRUE, read |-> FALSE, score |-> <<0, 1>>, cache |-> cache]
    ELSE
    With(calculate_enhanced_similarity(cache, wratio, original, candidate),
         LAMBDA similarity :
        [ok |-> ~(\/ (short /\ RLt(similarity.value, <<2, 10>>))
                 \/ (long /\ RLt(similarity.value, <<3, 10>>))),
         read |-> TRUE, score |-> similarity.value, cache |-> similarity.cache])))))

\* lines 418-449; short and long are the two length ratios that ask for the score
validate_improvement(cache, wratio, original, candidate) ==
    With(Len(Words(original)), LAMBDA orig_len :
    With(Len(Words(candidate)), LAMBDA cand_len :
    With(cand_len * 10 < orig_len * 4, LAMBDA short :
    With(cand_len > orig_len * 3, LAMBDA long :
    IF cand_len * 10 < orig_len * 2 \/ cand_len > orig_len * 8
    THEN [ok |-> FALSE, read |-> FALSE, score |-> <<0, 1>>, cache |-> cache]
    ELSE IF ~(short \/ long)
    THEN [ok |-> TRUE, read |-> FALSE, score |-> <<0, 1>>, cache |-> cache]
    ELSE
    With(calculate_enhanced_similarity(cache, wratio, original, candidate),
         LAMBDA similarity :
        [ok |-> ~(\/ (short /\ RLt(similarity.value, <<2, 10>>))
                 \/ (long /\ RLt(similarity.value, <<3, 10>>))),
         read |-> TRUE, score |-> similarity.value, cache |-> similarity.cache])))))

\* whether validate_improvement asks for the score of the pair
ReadsScore(original, candidate) ==
    With(Len(Words(original)), LAMBDA orig_len :
    With(Len(Words(candidate)), LAMBDA cand_len :
        /\ ~(cand_len * 10 < orig_len * 2 \/ cand_len > orig_len * 8)
        /\ (cand_len * 10 < orig_len * 4 \/ cand_len > orig_len * 3)))

-----------------------------------------------------------------------------
(* The texts in play.  Queries are segment transcriptions as the recogniser *)
(* may return them; corpora are the contents of transcript files.           *)

\* scenario 1: no diacritics, no final period
QueryPlain == <<"h", "o", "m", " ", "n", "a", "y", " ", "t", "r", "o", "i", " ", "d",
    "e", "p">>

\* the sentence in lower case with a doubled space
QuerySpaced == <<"h", "oC", "m", " ", " ", "n", "a", "y", " ", "t", "r", "oHG", "i", " ",
    "dS", "eD", "p", ".">>

\* the sentence without its combining marks
QueryNoTone == <<"h", "o", "m", " ", "n", "a", "y", " ", "t", "r", "o", "i", " ", "dS",
    "e", "p", ".">>

\* no diacritics and one more word
QueryExtra == <<"h", "o", "m", " ", "n", "a", "y", " ", "t", "r", "o", "i", " ", "d",
    "e", "p", " ", "q", "u", "a">>

\* a 7-character sentence in lower case
QueryShort == <<"dS", "i", " ", "l", "aG", "m", ".">>

\* a 3-character sentence in lower case
QueryTiny == <<"dS", "i", ".">>

\* unrelated to every corpus
QueryOther == <<"x", "i", "n", " ", "c", "h", "a", "o", " ", "b", "a", "n">>

\* the first two words, no diacritics
QueryPrefix == <<"h", "o", "m", " ", "n", "a", "y">>

\* the sentence itself
QuerySame == <<"H", "oC", "m", " ", "n", "a", "y", " ", "t", "r", "oHG", "i", " ", "dS",
    "eD", "p", ".">>

\* close to the short sentence only
QueryLoose == <<"d", "i", " ", "l", "a", "m", " ", "a">>

\* the short sentence spread over 11 characters
QueryWide == <<"dS", "i", " ", " ", " ", " ", " ", "l", "aG", "m", ".">>

\* one sentence
CorpusOne == <<"H", "oC", "m", " ", "n", "a", "y", " ", "t", "r", "oHG", "i", " ", "dS",
    "eD", "p", ".">>

\* a sentence of 7 characters, then a long one
CorpusShort == <<"DS", "i", " ", "l", "aG", "m", ".", "\n", "H", "oC", "m", " ", "n",
    "a", "y", " ", "t", "r", "oHG", "i", " ", "dS", "eD", "p", ".">>

\* a single sentence of 3 characters
CorpusTiny == <<"DS", "i", ".">>

\* a near miss before the sentence
CorpusNear == <<"H", "oC", "m", " ", "n", "a", "y", " ", "t", "r", "oHG", "i", " ", "dS",
    "eD", "p", " ", "aG", ".", " ", "H", "oC", "m", " ", "n", "a", "y", " ", "t", "r",
    "oHG", "i", " ", "dS", "eD", "p", ".">>

\* two sentences with one normal form
CorpusTwice == <<"H", "oC", "m", " ", "n", "a", "y", " ", "t", "r", "oHG", "i", " ",
    "dS", "eD", "p", ".", "\n", "h", "oC", "m", " ", "n", "a", "y", " ", "t", "r", "oHG",
    "i", " ", "dS", "eD", "p", ".">>

\* one normal form, 7 and 11 characters
CorpusWide == <<"DS", "i", " ", "l", "aG", "m", ".", "\n", "dS", "i", " ", " ", " ", " ",
    " ", "l", "aG", "m", ".">>

\* an empty transcript file
CorpusEmpty == <<>>

\* two sentences that score alike
CorpusTie == <<"H", "oC", "m", " ", "n", "a", "y", " ", "t", "r", "oHG", "i", " ", "dS",
    "eD", "p", " ", "aG", ".", "\n", "H", "oC", "m", " ", "n", "a", "y", " ", "t", "r",
    "oHG", "i", " ", "dS", "eD", "p", " ", "oH", ".">>

\* a short sentence and a longer one that contains it
CorpusMixed == <<"DS", "i", " ", "l", "aG", "m", ".", " ", "T", "oC", "i", " ", "dS",
    "i", " ", "l", "aG", "m", ".">>

\* four sentences: an unrelated one, two that score alike, one more
CorpusRanked == <<"T", "oC", "i", ".", "\n", "DS", "i", " ", "l", "aG", "m", " ", "oH",
    ".", "\n", "DS", "i", " ", "l", "aG", "m", " ", "oHG", ".", "\n", "DS", "i", " ",
    "l", "aG", "m", " ", "aG", ".">>

Queries == {QueryPlain, QuerySpaced, QueryNoTone, QueryExtra, QueryShort, QueryTiny,
            QueryOther, QueryPrefix, QuerySame, QueryLoose, QueryWide}

Corpora == {CorpusOne, CorpusShort, CorpusTiny, CorpusNear, CorpusTwice, CorpusWide,
            CorpusEmpty, CorpusTie, CorpusMixed, CorpusRanked}

\* what a caller may hand to the matcher as its reference
References ==
    {NoReference, EmptyDict, DictReference(CorpusOne)}
        \cup {TextReference(k) : k \in Corpora}
        \cup {ParsedReference(k) : k \in Corpora}

-----------------------------------------------------------------------------
(* Values of the variables an operation has not touched yet *)

NoResult == [kind |-> "none", value |-> <<>>, exc |-> "", stage |-> 0, score |-> <<0, 1>>,
             trail |-> <<>>]
NoValidation == [done |-> FALSE, original |-> <<>>, candidate |-> <<>>, ok |-> FALSE,
                 read |-> FALSE, score |-> <<0, 1>>]
NoCall == [done |-> FALSE, text1 |-> <<>>, text2 |-> <<>>, hit |-> FALSE,
           value |-> <<0, 1>>]

-----------------------------------------------------------------------------
(* SpecMatch: a caller enters one of the three matcher methods with a query  *)
(* and a reference.                                                          *)

InitMatch ==
    /\ pc = "enter"
    /\ entry = ""
    /\ transcribed_text \in Queries \cup {<<>>}
    /\ original_transcript \in References
    /\ result = NoResult
    /\ final_text = <<>>
    /\ status = ""
    /\ accuracy = <<0, 1>>
    /\ validation = NoValidation
    /\ boost_calls = 0
    /\ files_done = 0
    /\ similarity_cache = <<>>
    /\ hash_of = <<>>
    /\ wratio_of = <<>>
    /\ call = NoCall

Enter_find_best_match ==
    /\ pc = "enter"
    /\ entry' = "find_best_match"
    /\ result' = find_best_match(transcribed_text, original_transcript)
    /\ pc' = "returned"
    /\ UNCHANGED <<transcribed_text, original_transcript, final_text, status, accuracy,
                   validation, boost_calls, files_done, similarity_cache, hash_of,
                   wratio_of, call>>

Enter_ultra_fast_match ==
    /\ pc = "enter"
    /\ entry' = "ultra_fast_match"
    /\ result' = ultra_fast_match(transcribed_text, original_transcript)
    /\ pc' = "returned"
    /\ UNCHANGED <<transcribed_text, original_transcript, final_text, status, accuracy,
                   validation, boost_calls, files_done, similarity_cache, hash_of,
                   wratio_of, call>>

Enter_simple_sentence_match ==
    /\ pc = "enter"
    /\ entry' = "simple_sentence_match"
    /\ result' = simple_sentence_match(transcribed_text, original_transcript)
    /\ pc' = "returned"
    /\ UNCHANGED <<transcribed_text, original_transcript, final_text, status, accuracy,
                   validation, boost_calls, files_done, similarity_cache, hash_of,
                   wratio_of, call>>

NextMatch ==
    \/ Enter_find_best_match
    \/ Enter_ultra_fast_match
    \/ Enter_simple_sentence_match

SpecMatch == InitMatch /\ [][NextMatch]_vars

-----------------------------------------------------------------------------
(* Claims about the matcher, checked under SpecMatch *)

\* C1 (as the code has it): exact match precedence holds over the candidate list
\* of the cascade that answers.  For a non-empty query, find_best_match on a raw
\* text returns the earliest sentence longer than 3 characters whose tone-preserving
\* normal form is the query's, when there is one; on a pre-parsed reference it
\* returns the earliest pre-parsed sentence (those are longer than 10 characters)
\* with that normal form, when there is one, unless that sentence is the query
\* itself, and then it returns the earliest such sentence longer than 3 characters
\* of the re-split full text; whatever fuzzy candidates are present.
C1_ExactPrecedence ==
    (/\ pc = "returned"
     /\ entry = "find_best_match"
     /\ transcribed_text # <<>>
     /\ original_transcript.shape \in {"text", "parsed"}
     /\ ~Falsy(original_transcript)) =>
        LET same(s) == normalize_vi(s, FALSE) = normalize_vi(transcribed_text, FALSE)
            has(list) == \E i \in 1..Len(list) : same(list[i])
            earliest(list) ==
                list[CHOOSE i \in 1..Len(list) :
                        same(list[i]) /\ \A j \in 1..(i - 1) : ~same(list[j])]
            resplit == simple_sentences(original_transcript.full_text)
            preparsed == fast_sentences(original_transcript)
        IN  IF original_transcript.shape = "text"
            THEN has(resplit) =>
                    result.kind = "return" /\ result.value = earliest(resplit)
            ELSE has(preparsed) =>
                    /\ result.kind = "return"
                    /\ result.value = IF earliest(preparsed) # transcribed_text
                                      THEN earliest(preparsed)
                                      ELSE earliest(resplit)

\* C1 as the specification states it: whenever some sentence of the corpus has the
\* query's tone-preserving normal form, find_best_match returns the earliest such
\* sentence of the corpus.
C1_EarliestCorpusSentence ==
    (/\ pc = "returned"
     /\ entry = "find_best_match"
     /\ transcribed_text # <<>>
     /\ original_transcript.shape \in {"text", "parsed"}) =>
        LET same(s) == normalize_vi(s, FALSE) = normalize_vi(transcribed_text, FALSE)
            corpus == SelectSeq(StripAll(split_sentences_vi(original_transcript.full_text)),
                                LAMBDA x : x # <<>>)
        IN  (\E i \in 1..Len(corpus) : same(corpus[i])) =>
                result.value =
                    corpus[CHOOSE i \in 1..Len(corpus) :
                              same(corpus[i]) /\ \A j \in 1..(i - 1) : ~same(corpus[j])]

\* an exact match returned although a near miss precedes it in the corpus
C1_Witness ==
    /\ pc = "returned"
    /\ entry = "find_best_match"
    /\ transcribed_text = QuerySpaced
    /\ original_transcript = ParsedReference(CorpusNear)
    /\ result.stage = 1
    /\ result.value = CorpusOne

\* C2: the value a matcher method returns is the query itself or a sentence of the
\* candidate list built from the corpus, and it is the query when every cascade
\* that ran ended without a stage clearing its threshold and guard.
C2_NoFabricatedMatch ==
    (pc = "returned" /\ result.kind = "return") =>
        LET preparsed == Range(fast_sentences(original_transcript))
            resplit == Range(simple_sentences(original_transcript.full_text))
            candidates ==
                IF entry = "ultra_fast_match" THEN preparsed
                ELSE IF entry = "simple_sentence_match" THEN resplit
                ELSE IF original_transcript.shape = "parsed" THEN preparsed \cup resplit
                ELSE resplit
        IN  /\ result.value = transcribed_text \/ result.value \in candidates
            /\ (\A i \in 1..Len(result.trail) : result.trail[i].stage = 0) =>
                    result.value = transcribed_text

\* both cascades ran, neither cleared a stage, and the query came back
C2_Witness ==
    /\ pc = "returned"
    /\ entry = "find_best_match"
    /\ transcribed_text = QueryOther
    /\ original_transcript = ParsedReference(CorpusShort)
    /\ Len(result.trail) = 2
    /\ result.value = QueryOther

\* C8 (as the code has it): a query whose tone-stripped normal form is that of a
\* candidate sentence, while no candidate has its tone-preserving normal form, is
\* returned the earliest such candidate by stage 2 of the cascade.  The normal form
\* folds case, surrounding and repeated whitespace and the marks Unicode decomposes
\* into combining characters; it keeps d with stroke and punctuation.  So the query
\* "hom nay troi dep" against "Hôm nay trời đẹp." gets that sentence from the
\* tone-preserving fuzzy stage (stage 3) with score 10/11, not from stage 2.
C8_ToneStrippedExact ==
    /\ (/\ pc = "returned"
        /\ entry \in {"ultra_fast_match", "simple_sentence_match"}
        /\ result.kind = "return"
        /\ transcribed_text # <<>>) =>
           LET list == IF entry = "ultra_fast_match"
                       THEN fast_sentences(original_transcript)
                       ELSE simple_sentences(original_transcript.full_text)
               same(s, strip) == normalize_vi(s, strip) = normalize_vi(transcribed_text, strip)
               hits == {i \in 1..Len(list) : same(list[i], TRUE)}
           IN  (hits # {} /\ \A i \in 1..Len(list) : ~same(list[i], FALSE)) =>
                   /\ result.stage = 2
                   /\ result.value = list[CHOOSE i \in hits : \A j \in hits : i <= j]
    /\ (/\ pc = "returned"
        /\ entry = "find_best_match"
        /\ transcribed_text = QueryPlain
        /\ original_transcript \in {ParsedReference(CorpusOne), TextReference(CorpusOne)}) =>
           /\ result.value = CorpusOne
           /\ result.stage = 3
           /\ result.score = <<10, 11>>

\* C8 as the specification states it: the query "hom nay troi dep" against the
\* corpus sentence "Hôm nay trời đẹp." is matched at stage 2 and gets the sentence.
C8_ScenarioAtStageTwo ==
    (/\ pc = "returned"
     /\ entry = "find_best_match"
     /\ transcribed_text = QueryPlain
     /\ original_transcript \in {ParsedReference(CorpusOne), TextReference(CorpusOne)}) =>
        result.stage = 2 /\ result.value = CorpusOne

\* the sentence without its combining marks is answered by stage 2
C8_Witness ==
    /\ pc = "returned"
    /\ entry = "ultra_fast_match"
    /\ transcribed_text = QueryNoTone
    /\ original_transcript = ParsedReference(CorpusOne)
    /\ result.stage = 2
    /\ result.value = CorpusOne

\* C10 as the specification states it: a non-empty reference that is neither a
\* pre-parsed record nor a text makes find_best_match fail with the distinct
\* error UnsupportedCorpusShape.
C10_UnsupportedCorpusShape ==
    (/\ pc = "returned"
     /\ entry = "find_best_match"
     /\ original_transcript.shape = "dict") =>
        result.kind = "raise" /\ result.exc = "UnsupportedCorpusShape"

\* what the code does with a dict that has no 'sentences': re.split raises TypeError
C10_Witness ==
    /\ pc = "returned"
    /\ entry = "find_best_match"
    /\ transcribed_text = QueryPlain
    /\ original_transcript = DictReference(CorpusOne)
    /\ result.kind = "raise"
    /\ result.exc = "TypeError"

\* C11: a sentence ultra_fast_match returns from a fuzzy stage (stage 3 or 4) is
\* the top-ranked candidate: the earliest sentence of the candidate list among
\* those with the maximal fuzzy score.  Its score s and the share of the query's
\* words found in it satisfy s > 0.7 and (tone-preserving share > 0.3 or
\* s > 0.85), or s > 0.6 and (tone-stripped share > 0.25 or s > 0.8); so no
\* candidate with a score of 0.6 or less is returned by a fuzzy stage.
C11_FastPathAcceptance ==
    (/\ pc = "returned"
     /\ entry = "ultra_fast_match"
     /\ result.kind = "return"
     /\ result.stage \in {3, 4}) =>
        LET list == fast_sentences(original_transcript)
            score(i) == fuzzy_score_vi(transcribed_text, list[i], FALSE)
            top == CHOOSE i \in 1..Len(list) :
                      \A j \in 1..Len(list) :
                          /\ RLe(score(j), score(i))
                          /\ (j < i) => RLt(score(j), score(i))
            share(strip) ==
                LET query_words == WordSet(normalize_vi(transcribed_text, strip))
                    cand_words == WordSet(normalize_vi(result.value, strip))
                IN  IF query_words = {} THEN <<0, 1>>
                    ELSE <<Cardinality(query_words \cap cand_words),
                           Cardinality(query_words)>>
            s == result.score
        IN  /\ result.value = list[top]
            /\ s = score(top)
            /\ \/ RLt(<<7, 10>>, s) /\ (RLt(<<3, 10>>, share(FALSE)) \/ RLt(<<85, 100>>, s))
               \/ RLt(<<6, 10>>, s) /\ (RLt(<<25, 100>>, share(TRUE)) \/ RLt(<<8, 10>>, s))
            /\ RLt(<<6, 10>>, s)

\* a candidate accepted by stage 4 on its tone-stripped word share: score 30/37,
\* tone-preserving share 1/5, tone-stripped share 3/5
C11_Witness ==
    /\ pc = "returned"
    /\ entry = "ultra_fast_match"
    /\ transcribed_text = QueryExtra
    /\ original_transcript = ParsedReference(CorpusOne)
    /\ result.stage = 4
    /\ result.value = CorpusOne
    /\ result.score = <<30, 37>>

\* C12: on a pre-parsed reference find_best_match runs the fast cascade over the
\* pre-parsed sentences first (for a non-empty query; an empty one is handed
\* back at once).  A fast result that differs from the query is what is
\* returned, and the simple cascade has not run.  When the fast result is the
\* query, what is returned is the result of the simple cascade over the re-split
\* full text, whose candidates are the sentences longer than 3 characters.
C12_DispatcherOrdering ==
    (/\ pc = "returned"
     /\ entry = "find_best_match"
     /\ original_transcript.shape = "parsed") =>
        LET fast == ultra_fast_match(transcribed_text, original_transcript)
            simple == simple_sentence_match(
                          transcribed_text, TextReference(original_transcript.full_text))
            ran == [i \in 1..Len(result.trail) |-> result.trail[i].cascade]
        IN  /\ transcribed_text # <<>> =>
                   /\ ran # <<>>
                   /\ ran[1] = "ultra_fast_match"
                   /\ result.trail[1].stage = fast.stage
            /\ fast.value # transcribed_text =>
                   /\ result.kind = "return"
                   /\ result.value = fast.value
                   /\ ran = <<"ultra_fast_match">>
            /\ fast.value = transcribed_text =>
                   /\ result.kind = simple.kind
                   /\ result.value = simple.value
                   /\ transcribed_text # <<>> =>
                          /\ ran = <<"ultra_fast_match", "simple_sentence_match">>
                          /\ result.trail[2].stage = simple.stage

\* the 7 characters of 'Đi làm.' are dropped by pre-parsing; the fast cascade
\* hands the query back and the simple cascade finds the sentence at stage 1
C12_Witness ==
    /\ pc = "returned"
    /\ entry = "find_best_match"
    /\ transcribed_text = QueryShort
    /\ original_transcript = ParsedReference(CorpusShort)
    /\ \A i \in 1..Len(original_transcript.sentences) :
           original_transcript.sentences[i].text # result.value
    /\ Len(result.value) <= 10
    /\ result.value = SubSeq(CorpusShort, 1, 7)
    /\ result.trail = <<[cascade |-> "ultra_fast_match", stage |-> 0],
                        [cascade |-> "simple_sentence_match", stage |-> 1]>>

\* C14: fuzzy_topk_vi ranks the sentences of a cascade's candidate list by
\* descending score, and sentences of one score by ascending index in the list;
\* it returns the first topk of that ranking, each with its own index, sentence
\* and score.  So the candidate a fuzzy stage returns is the earliest sentence
\* among those with the maximal score.
C14_RankingTieBreak ==
    (/\ pc = "returned"
     /\ entry \in {"ultra_fast_match", "simple_sentence_match"}
     /\ result.kind = "return"
     /\ transcribed_text # <<>>
     /\ original_transcript.shape \in {"text", "parsed"}) =>
        LET sentences == IF entry = "ultra_fast_match"
                         THEN fast_sentences(original_transcript)
                         ELSE simple_sentences(original_transcript.full_text)
            topk == IF entry = "ultra_fast_match" THEN 3 ELSE 5
            Same(a, b) == RLe(a, b) /\ RLe(b, a)
            \* entry a ranks before entry b
            Before(a, b) == \/ RLt(b.score, a.score)
                            \/ Same(a.score, b.score) /\ a.index < b.index
        IN  \A strip_tone \in BOOLEAN :
                LET ranked == fuzzy_topk_vi(transcribed_text, sentences, topk, strip_tone)
                    scored == [i \in 1..Len(sentences) |->
                                 [index |-> i - 1,
                                  score |-> fuzzy_score_vi(transcribed_text, sentences[i],
                                                           strip_tone)]]
                    listed == {ranked[i].index : i \in 1..Len(ranked)}
                IN  /\ Len(ranked) = Min(topk, Len(sentences))
                    /\ \A i \in 1..Len(ranked) :
                           /\ ranked[i].rank = i
                           /\ ranked[i].index \in 0..(Len(sentences) - 1)
                           /\ ranked[i].sentence = sentences[ranked[i].index + 1]
                           /\ ranked[i].score = scored[ranked[i].index + 1].score
                    /\ \A i, j \in 1..Len(ranked) : i < j => Before(ranked[i], ranked[j])
                    /\ \A i \in 1..Len(ranked), k \in 1..Len(sentences) :
                           scored[k].index \notin listed => Before(ranked[i], scored[k])
                    /\ (result.stage = (IF strip_tone THEN 4 ELSE 3)) =>
                           /\ result.value = ranked[1].sentence
                           /\ \A k \in 1..Len(sentences) :
                                  /\ RLe(scored[k].score, ranked[1].score)
                                  /\ Same(scored[k].score, ranked[1].score)
                                         => ranked[1].index <= k - 1

\* the fourth sentence scores highest and is returned, by stage 4; the second
\* and the third score alike and keep their order behind it; the first is cut
C14_Witness ==
    /\ pc = "returned"
    /\ entry = "ultra_fast_match"
    /\ transcribed_text = QueryLoose
    /\ original_transcript = TextReference(CorpusRanked)
    /\ result.stage = 4
    /\ LET sentences == fast_sentences(original_transcript)
           ranked == fuzzy_topk_vi(transcribed_text, sentences, 3, TRUE)
       IN  /\ Len(sentences) = 4
           /\ result.value = sentences[4]
           /\ [i \in 1..Len(ranked) |-> ranked[i].index] = <<3, 1, 2>>
           /\ ranked[2].score = ranked[3].score
           /\ ranked[1].score = <<14, 17>>

-----------------------------------------------------------------------------
(* SpecSim: a caller calls calculate_enhanced_similarity until the cache     *)
(* holds MaxEntries entries, in a process whose hash() sends the texts   *)
(* in play to HashRange values, so that two texts may share a hash.          *)

MaxEntries == 2
HashRange == 2

\* "hôm nay", "hom nay" and the empty string
SimTexts == {<<"h", "oC", "m", " ", "n", "a", "y">>,
             <<"h", "o", "m", " ", "n", "a", "y">>,
             <<>>}

InitSim ==
    /\ pc = "enter"
    /\ entry = ""
    /\ transcribed_text = <<>>
    /\ original_transcript = NoReference
    /\ result = NoResult
    /\ final_text = <<>>
    /\ status = ""
    /\ accuracy = <<0, 1>>
    /\ validation = NoValidation
    /\ boost_calls = 0
    /\ files_done = 0
    /\ similarity_cache = <<>>
    /\ hash_of \in [SimTexts \ {<<>>} -> 0..(HashRange - 1)]
    /\ wratio_of = <<>>
    /\ call = NoCall

Enter_calculate_enhanced_similarity ==
    /\ pc = "enter"
    /\ Len(similarity_cache) < MaxEntries
    /\ \E text1 \in SimTexts, text2 \in SimTexts :
          LET asked == IF /\ text1 # <<>>
                          /\ text2 # <<>>
                          /\ cache_key(text1, text2) \notin CachedKeys(similarity_cache)
                       THEN {<<text1, text2>>}
                       ELSE {}
          IN  \E answers \in [UnknownPairs(wratio_of, asked) -> WVals] :
                 \E returned \in {calculate_enhanced_similarity(
                                      similarity_cache, answers @@ wratio_of, text1, text2)} :
                     /\ wratio_of' = answers @@ wratio_of
                     /\ similarity_cache' = returned.cache
                     /\ call' = [done |-> TRUE, text1 |-> text1, text2 |-> text2,
                                 hit |-> returned.hit, value |-> returned.value]
    /\ entry' = "calculate_enhanced_similarity"
    /\ UNCHANGED <<pc, transcribed_text, original_transcript, result, final_text, status,
                   accuracy, validation, boost_calls, files_done, hash_of>>

NextSim == Enter_calculate_enhanced_similarity

SpecSim == InitSim /\ [][NextSim]_vars

-----------------------------------------------------------------------------
(* SpecVal: a caller validates a candidate against an original, on a fresh   *)
(* processor.  The texts are 0..MaxValWords words, and 10, 19 and 100 words  *)
(* for the ratios 0.19 and 0.2, and one text with irregular whitespace.      *)

MaxValWords == 8

\* n times the word w, a space between
RepeatWord(w, n) == [i \in 1..(IF n = 0 THEN 0 ELSE 2 * n - 1) |-> IF i % 2 = 1 THEN w ELSE " "]

ValTexts ==
    {RepeatWord(w, n) : w \in {"a", "b"}, n \in (0..MaxValWords) \cup {10, 19, 100}}
        \cup {<<" ", "a", "\n", "b", " ", " ", "a", " ">>}

InitVal ==
    /\ pc = "enter"
    /\ entry = ""
    /\ transcribed_text = <<>>
    /\ original_transcript = NoReference
    /\ result = NoResult
    /\ final_text = <<>>
    /\ status = ""
    /\ accuracy = <<0, 1>>
    /\ validation = NoValidation
    /\ boost_calls = 0
    /\ files_done = 0
    /\ similarity_cache = <<>>
    /\ hash_of = <<>>
    /\ wratio_of = <<>>
    /\ call = NoCall

Enter_validate_improvement ==
    /\ pc = "enter"
    /\ \E original \in ValTexts, candidate \in ValTexts :
          LET asked == IF ReadsScore(original, candidate)
                       THEN {<<original, candidate>>}
                       ELSE {}
          IN  \E answers \in [UnknownPairs(wratio_of, asked) -> WVals] :
                 \E returned \in {validate_improvement(
                                      similarity_cache, answers @@ wratio_of,
                                      original, candidate)} :
                     /\ wratio_of' = answers @@ wratio_of
                     /\ similarity_cache' = returned.cache
                     /\ validation' = [done |-> TRUE, original |-> original,
                                       candidate |-> candidate, ok |-> returned.ok,
                                       read |-> returned.read, score |-> returned.score]
    /\ entry' = "validate_improvement"
    /\ pc' = "returned"
    /\ UNCHANGED <<transcribed_text, original_transcript, result, final_text, status,
                   accuracy, boost_calls, files_done, hash_of, call>>

NextVal == Enter_validate_improvement

SpecVal == InitVal /\ [][NextVal]_vars

-----------------------------------------------------------------------------
(* Claims about the validator, checked under SpecVal *)

\* C3 (as the code has it): validate_improvement returns false when the candidate's
\* word count is 0.19 times the original's, by the length rule and without reading
\* the score.  At a ratio of exactly 0.2 the length rule does not reject, the
\* candidate is shorter than 0.4 times the original, the score is read, and the
\* score computed for such a pair is below 0.2, so the result is false as well.
C3_LengthBoundary ==
    validation.done =>
        LET orig == Len(Words(validation.original))
            cand == Len(Words(validation.candidate))
        IN  /\ (orig > 0 /\ 100 * cand = 19 * orig) =>
                   ~validation.ok /\ ~validation.read
            /\ (orig > 0 /\ 5 * cand = orig) =>
                   /\ validation.read
                   /\ RLt(validation.score, <<1, 5>>)
                   /\ ~validation.ok

\* C3 as the specification states it: false at a ratio of 0.19, true at a ratio of
\* exactly 0.2.
C3_InclusiveBoundary ==
    validation.done =>
        LET orig == Len(Words(validation.original))
            cand == Len(Words(validation.candidate))
        IN  /\ (orig > 0 /\ 100 * cand = 19 * orig) => ~validation.ok
            /\ (orig > 0 /\ 5 * cand = orig) => validation.ok

\* one word against five: the score is read and the candidate rejected
C3_Witness ==
    /\ validation.done
    /\ validation.original = RepeatWord("a", 5)
    /\ validation.candidate = RepeatWord("a", 1)
    /\ validation.read
    /\ ~validation.ok

\* C4: with orig and cand the word counts, validate_improvement returns false iff
\* cand < 0.2*orig or cand > 8*orig, or cand < 0.4*orig and the score of
\* (original, candidate) is below 0.2, or cand > 3*orig and that score is below
\* 0.3; in every other case it returns true.
C4_DecisionTable ==
    validation.done =>
        LET orig == Len(Words(validation.original))
            cand == Len(Words(validation.candidate))
            score == calculate_enhanced_similarity(
                         <<>>, wratio_of, validation.original, validation.candidate).value
        IN  validation.ok =
                ~(\/ 10 * cand < 2 * orig
                  \/ cand > 8 * orig
                  \/ 10 * cand < 4 * orig /\ RLt(score, <<2, 10>>)
                  \/ cand > 3 * orig /\ RLt(score, <<3, 10>>))

\* a candidate of 3 words for 8 accepted on a score of at least 0.2
C4_Witness ==
    /\ validation.done
    /\ validation.original = RepeatWord("a", 8)
    /\ validation.candidate = RepeatWord("a", 3)
    /\ validation.read
    /\ RLe(<<1, 5>>, validation.score)
    /\ validation.ok

-----------------------------------------------------------------------------
(* Claims about the similarity engine, checked under SpecSim *)

\* C5 (as the code has it): for non-empty a and b, the score the engine computes
\* (its answer on a cache miss) is (0.5*viFuzzy + 0.3*wRatio + 0.2*jaccard) *
\* lenPenalty, where jaccard is the Jaccard value of the tone-preserving word sets
\* and lenPenalty is min/max of the two tone-preserving word counts.
C5_CompositeWeights ==
    (call.done /\ ~call.hit /\ call.text1 # <<>> /\ call.text2 # <<>>) =>
        LET a == normalize_vi(call.text1, FALSE)
            b == normalize_vi(call.text2, FALSE)
            viFuzzy == RMax(difflib_ratio(a, b),
                            difflib_ratio(normalize_vi(call.text1, TRUE),
                                          normalize_vi(call.text2, TRUE)))
            wRatio == <<WRatio(wratio_of, a, b), 100>>
            both == WordSet(a) \cap WordSet(b)
            either == WordSet(a) \cup WordSet(b)
            jaccard == IF WordSet(a) = {} \/ WordSet(b) = {} THEN <<0, 1>>
                       ELSE <<Cardinality(both), Cardinality(either)>>
            counts == {Len(Words(a)), Len(Words(b))}
            least == CHOOSE n \in counts : \A m \in counts : n <= m
            most == CHOOSE n \in counts : \A m \in counts : n >= m
            lenPenalty == IF most = 0 THEN <<1, 1>> ELSE <<least, most>>
            weighted == RAdd(RMul(<<50, 100>>, viFuzzy),
                             RAdd(RMul(<<30, 100>>, wRatio), RMul(<<20, 100>>, jaccard)))
        IN  call.value = RMul(weighted, lenPenalty)

\* C5 as the specification states it: the weights are 0.55, 0.25 and 0.20, and
\* jaccard is the larger of the tone-preserving and the tone-stripped Jaccard values.
C5_SpecWeights ==
    (call.done /\ ~call.hit /\ call.text1 # <<>> /\ call.text2 # <<>>) =>
        LET a == normalize_vi(call.text1, FALSE)
            b == normalize_vi(call.text2, FALSE)
            a0 == normalize_vi(call.text1, TRUE)
            b0 == normalize_vi(call.text2, TRUE)
            viFuzzy == RMax(difflib_ratio(a, b), difflib_ratio(a0, b0))
            wRatio == <<WRatio(wratio_of, a, b), 100>>
            jac(x, y) == IF WordSet(x) = {} \/ WordSet(y) = {} THEN <<0, 1>>
                         ELSE Rat(Cardinality(WordSet(x) \cap WordSet(y)),
                                  Cardinality(WordSet(x) \cup WordSet(y)))
            jaccard == RMax(jac(a, b), jac(a0, b0))
            counts == {Len(Words(a)), Len(Words(b))}
            least == CHOOSE n \in counts : \A m \in counts : n <= m
            most == CHOOSE n \in counts : \A m \in counts : n >= m
            lenPenalty == IF most = 0 THEN <<1, 1>> ELSE <<least, most>>
            weighted == RAdd(RMul(<<55, 100>>, viFuzzy),
                             RAdd(RMul(<<25, 100>>, wRatio), RMul(<<20, 100>>, jaccard)))
        IN  call.value = RMul(weighted, lenPenalty)

\* "hôm nay" against "hom nay" with fuzz.WRatio answering 50:
\* 0.5*1 + 0.3*0.5 + 0.2*(1/3) = 43/60
C5_Witness ==
    /\ call.done
    /\ ~call.hit
    /\ call.text1 = <<"h", "oC", "m", " ", "n", "a", "y">>
    /\ call.text2 = <<"h", "o", "m", " ", "n", "a", "y">>
    /\ call.value = <<43, 60>>

\* C6 as the specification states it: every call returns the value an uncached
\* computation of its pair returns (here: with some answer of fuzz.WRatio that
\* agrees with the answers given so far), also when two different pairs have the
\* same cache key.
C6_CacheTransparency ==
    call.done =>
        IF call.text1 = <<>> \/ call.text2 = <<>>
        THEN call.value = <<0, 1>>
        ELSE \E w \in WVals :
                LET unknown == UnknownPairs(wratio_of, {<<call.text1, call.text2>>})
                    wratio == [p \in unknown |-> w] @@ wratio_of
                IN  call.value = combined_score(wratio, call.text1, call.text2)

\* a pair answered from the entry of another pair with the same key
C6_Witness ==
    /\ call.done
    /\ call.hit
    /\ call.text1 = <<"h", "oC", "m", " ", "n", "a", "y">>
    /\ call.text2 = <<"h", "o", "m", " ", "n", "a", "y">>
    /\ call.value = <<1, 1>>

-----------------------------------------------------------------------------
(* process_segment_folder: the loop over the audio files of a folder *)

\* lines 519-524: the pieces of the full text between runs of . ! ? and newline,
\* stripped, longer than 10 characters
accuracy_segments(reference) ==
    IF Falsy(reference) THEN <<>>
    ELSE
    With(reference.full_text, LAMBDA text :
    With(Tuple([i \in 1..Len(text) |-> text[i] \in {".", "!", "?", "\n"}]), LAMBDA cut :
    With(SelectSeq(Indices(text),
                   LAMBDA i : ~cut[i] /\ (i = 1 \/ cut[i - 1])), LAMBDA first :
    With(SelectSeq(Indices(text),
                   LAMBDA i : ~cut[i] /\ (i = Len(text) \/ cut[i + 1])), LAMBDA last :
    With(Tuple([k \in 1..Len(first) |-> Strip(SubSeq(text, first[k], last[k]))]),
         LAMBDA pieces :
        SelectSeq(pieces, LAMBDA seg : Len(seg) > 10))))))

RECURSIVE best_similarity(_, _, _, _, _)
\* max(calculate_enhanced_similarity(final_text, seg) for seg in segments): the
\* calls are made in order on the cache; best is the maximum so far
best_similarity(cache, wratio, text, segments, best) ==
    IF segments = <<>> THEN [value |-> best, cache |-> cache]
    ELSE With(calculate_enhanced_similarity(cache, wratio, text, Head(segments)),
              LAMBDA returned :
         With(RMax(best, returned.value), LAMBDA better :
             best_similarity(returned.cache, wratio, text, Tail(segments), better)))

\* a rejected candidate kept as the final text
segment_outcome_keeps_candidate(reference, transcribed, corrected, validation_result) ==
    IF Falsy(reference)
    THEN [final_text |-> transcribed, status |-> "NO_REFERENCE"]
    ELSE IF corrected = transcribed
    THEN [final_text |-> transcribed, status |-> "UNCHANGED"]
    ELSE IF validation_result
    THEN [final_text |-> corrected, status |-> "CORRECTED"]
    ELSE [final_text |-> corrected, status |-> "VALIDATION_FAILED"]

\* lines 494-516: final_text and status of one segment
segment_outcome(reference, transcribed, corrected, validation_result) ==
    IF Falsy(reference)
    THEN [final_text |-> transcribed, status |-> "NO_REFERENCE"]
    ELSE IF corrected = transcribed
    THEN [final_text |-> transcribed, status |-> "UNCHANGED"]
    ELSE IF validation_result
    THEN [final_text |-> corrected, status |-> "CORRECTED"]
    ELSE [final_text |-> transcribed, status |-> "VALIDATION_FAILED"]

\* a candidate sentence followed by filler words
QueryPadded == <<"dS", "i", " ", "l", "aG", "m", " ", "a", " ", "a", " ", "a", " ", "a">>

\* what the recogniser returns for the audio files of the folder
AudioTexts == {QueryPlain, QueryShort, QueryOther, QueryPadded}

\* self.transcript_cache: the entries an article id may have
TranscriptCache ==
    {ParsedReference(k) : k \in {CorpusOne, CorpusShort, CorpusMixed, CorpusEmpty}}

\* the audio files of the folder
MaxFiles == 1

Init ==
    /\ pc = "transcribe"
    /\ entry = "process_segment_folder"
    /\ transcribed_text = <<>>
    /\ original_transcript = NoReference
    /\ result = NoResult
    /\ final_text = <<>>
    /\ status = ""
    /\ accuracy = <<0, 1>>
    /\ validation = NoValidation
    /\ boost_calls = 0
    /\ files_done = 0
    /\ similarity_cache = <<>>
    /\ hash_of = <<>>
    /\ wratio_of = <<>>
    /\ call = NoCall

\* line 486: the next file is transcribed
Transcribe ==
    /\ pc = "transcribe"
    /\ files_done < MaxFiles
    /\ \E text \in AudioTexts : transcribed_text' = text
    /\ result' = NoResult
    /\ validation' = NoValidation
    /\ final_text' = <<>>
    /\ status' = ""
    /\ accuracy' = <<0, 1>>
    /\ pc' = "lookup"
    /\ UNCHANGED <<entry, original_transcript, boost_calls, files_done, similarity_cache,
                   hash_of, wratio_of, call>>

\* lines 487-489: nothing was recognised, the file is skipped
NoTranscription ==
    /\ pc = "transcribe"
    /\ files_done < MaxFiles
    /\ transcribed_text' = <<>>
    /\ files_done' = files_done + 1
    /\ UNCHANGED <<pc, entry, original_transcript, result, final_text, status, accuracy,
                   validation, boost_calls, similarity_cache, hash_of, wratio_of, call>>

\* line 492: get_original_transcript finds the article's entry, or None
GetOriginalTranscript ==
    /\ pc = "lookup"
    /\ \E reference \in TranscriptCache \cup {NoReference} :
          original_transcript' = reference
    /\ pc' = "match"
    /\ UNCHANGED <<entry, transcribed_text, result, final_text, status, accuracy,
                   validation, boost_calls, files_done, similarity_cache, hash_of,
                   wratio_of, call>>

\* lines 495-516: match; a result equal to the transcription, or no reference,
\* settles the segment, any other result goes to the validator
Match ==
    /\ pc = "match"
    /\ \E corrected \in {IF Falsy(original_transcript) THEN NoResult
                         ELSE find_best_match(transcribed_text, original_transcript)} :
          /\ result' = corrected
          /\ IF ~Falsy(original_transcript) /\ corrected.value # transcribed_text
             THEN /\ pc' = "validate"
                  /\ UNCHANGED <<final_text, status>>
             ELSE LET outcome == segment_outcome(original_transcript, transcribed_text,
                                                 transcribed_text, FALSE)
                  IN  /\ final_text' = outcome.final_text
                      /\ status' = outcome.status
                      /\ pc' = "accuracy"
    /\ UNCHANGED <<entry, transcribed_text, original_transcript, accuracy, validation,
                   boost_calls, files_done, similarity_cache, hash_of, wratio_of, call>>

\* lines 499-508: validate_improvement decides between CORRECTED and
\* VALIDATION_FAILED
Validate ==
    /\ pc = "validate"
    /\ LET asked == IF ReadsScore(transcribed_text, result.value)
                    THEN {<<transcribed_text, result.value>>}
                    ELSE {}
       IN  \E answers \in [UnknownPairs(wratio_of, asked) -> WVals] :
              \E returned \in {validate_improvement(
                                   similarity_cache, answers @@ wratio_of,
                                   transcribed_text, result.value)} :
                 LET outcome == segment_outcome(original_transcript, transcribed_text,
                                                result.value, returned.ok)
                 IN  /\ wratio_of' = answers @@ wratio_of
                     /\ similarity_cache' = returned.cache
                     /\ validation' = [done |-> TRUE, original |-> transcribed_text,
                                       candidate |-> result.value, ok |-> returned.ok,
                                       read |-> returned.read, score |-> returned.score]
                     /\ final_text' = outcome.final_text
                     /\ status' = outcome.status
    /\ pc' = "accuracy"
    /\ UNCHANGED <<entry, transcribed_text, original_transcript, result, accuracy,
                   boost_calls, files_done, hash_of, call>>

\* lines 518-528: the accuracy of the final text
Accuracy ==
    /\ pc = "accuracy"
    /\ \E segments \in {accuracy_segments(original_transcript)} :
          \E answers \in [UnknownPairs(wratio_of, {<<final_text, segments[k]>> :
                                                      k \in 1..Len(segments)}) -> WVals] :
             \E returned \in {best_similarity(similarity_cache, answers @@ wratio_of,
                                              final_text, segments, <<0, 1>>)} :
                /\ wratio_of' = answers @@ wratio_of
                /\ similarity_cache' = returned.cache
                /\ accuracy' = IF segments = <<>> THEN <<5, 10>> ELSE returned.value
    /\ pc' = "save"
    /\ UNCHANGED <<entry, transcribed_text, original_transcript, result, final_text,
                   status, validation, boost_calls, files_done, hash_of, call>>

\* lines 530-546: the segment is written to the report and appended to results
Save ==
    /\ pc = "save"
    /\ files_done' = files_done + 1
    /\ pc' = "transcribe"
    /\ UNCHANGED <<entry, transcribed_text, original_transcript, result, final_text,
                   status, accuracy, validation, boost_calls, similarity_cache, hash_of,
                   wratio_of, call>>

\* lines 548-565: after the last file the summary is written
Summary ==
    /\ pc = "transcribe"
    /\ files_done = MaxFiles
    /\ pc' = "done"
    /\ UNCHANGED <<entry, transcribed_text, original_transcript, result, final_text,
                   status, accuracy, validation, boost_calls, files_done,
                   similarity_cache, hash_of, wratio_of, call>>

Next ==
    \/ Transcribe
    \/ NoTranscription
    \/ GetOriginalTranscript
    \/ Match
    \/ Validate
    \/ Accuracy
    \/ Save
    \/ Summary

Spec == Init /\ [][Next]_vars

-----------------------------------------------------------------------------
(* The segment outcome, checked under Spec *)

\* C7: once a segment's status is assigned, it is one of NO_REFERENCE, UNCHANGED,
\* CORRECTED and VALIDATION_FAILED: NO_REFERENCE iff no reference was found;
\* with a reference, UNCHANGED iff find_best_match returned the transcribed
\* text, CORRECTED iff it returned another text and validate_improvement, asked
\* about the transcribed text and that text, accepted it, VALIDATION_FAILED iff
\* it returned another text and validate_improvement rejected it.  The final
\* text differs from the transcribed text only under CORRECTED, where it is the
\* matcher's result; under VALIDATION_FAILED it is the transcribed text.
C7_SegmentOutcome ==
    pc \in {"accuracy", "save"} =>
        LET found == ~Falsy(original_transcript)
            differs == result.kind = "return" /\ result.value # transcribed_text
            asked == /\ validation.done
                     /\ validation.original = transcribed_text
                     /\ validation.candidate = result.value
        IN  /\ status \in {"NO_REFERENCE", "UNCHANGED", "CORRECTED", "VALIDATION_FAILED"}
            /\ (status = "NO_REFERENCE") <=> ~found
            /\ (status = "UNCHANGED")
                  <=> (found /\ result.kind = "return" /\ result.value = transcribed_text)
            /\ (status = "CORRECTED") <=> (found /\ differs /\ asked /\ validation.ok)
            /\ (status = "VALIDATION_FAILED")
                  <=> (found /\ differs /\ asked /\ ~validation.ok)
            /\ (final_text # transcribed_text) => (status = "CORRECTED")
            /\ (status = "CORRECTED") => (final_text = result.value)
            /\ (status = "VALIDATION_FAILED") => (final_text = transcribed_text)

\* a candidate the validator rejected has been discarded
C7_Witness ==
    /\ pc = "save"
    /\ status = "VALIDATION_FAILED"
    /\ validation.done
    /\ ~validation.ok
    /\ result.value # transcribed_text
    /\ final_text = transcribed_text

\* |query words & donor words| / |query words| over the tone-stripped word sets
toneless_overlap(query, donor) ==
    With(WordSet(normalize_vi(query, TRUE)), LAMBDA query_words :
    With(WordSet(normalize_vi(donor, TRUE)), LAMBDA donor_words :
        IF query_words = {} THEN <<0, 1>>
        ELSE Rat(Cardinality(query_words \cap donor_words), Cardinality(query_words))))

\* C9: a segment whose accuracy is below the target 0.80, and whose query shares
\* at least a quarter of its tone-stripped words with the matched sentence (the
\* donor), has had the Booster run on its text by the time it is saved.
C9_BoosterGate ==
    (/\ pc = "save"
     /\ result.kind = "return"
     /\ result.value # transcribed_text
     /\ RLt(accuracy, <<80, 100>>)
     /\ RLe(<<25, 100>>, toneless_overlap(transcribed_text, result.value)))
        => boost_calls > 0


-----------------------------------------------------------------------------
(* SpecCache: a processor that has been running for a while.  Its cache      *)
(* holds the entries of earlier calls, each on a text with itself (score 1), *)
(* on texts that are no longer in play and whose hashes are -1, -2, ...; it  *)
(* is within Headroom entries of CacheCap.  The texts in play have hashes of *)
(* their own, 0 and 1.  The caller goes on calling                           *)
(* calculate_enhanced_similarity until the cache has been cut.               *)

Headroom == 2

\* the cache after n such calls, oldest entry first
PriorEntries(n) == [i \in 1..n |-> [key |-> <<-i, -i>>, value |-> <<1, 1>>]]

InitCache ==
    /\ pc = "enter"
    /\ entry = ""
    /\ transcribed_text = <<>>
    /\ original_transcript = NoReference
    /\ result = NoResult
    /\ final_text = <<>>
    /\ status = ""
    /\ accuracy = <<0, 1>>
    /\ validation = NoValidation
    /\ boost_calls = 0
    /\ files_done = 0
    /\ \E n \in (CacheCap - Headroom)..CacheCap : similarity_cache = PriorEntries(n)
    /\ hash_of = CHOOSE h \in [SimTexts \ {<<>>} -> 0..1] :
                     \A s, t \in DOMAIN h : s # t => h[s] # h[t]
    /\ wratio_of = <<>>
    /\ call = NoCall

Enter_calculate_enhanced_similarity_near_cap ==
    /\ pc = "enter"
    /\ Len(similarity_cache) >= CacheCap - Headroom
    /\ \E text1 \in SimTexts, text2 \in SimTexts :
          LET asked == IF /\ text1 # <<>>
                          /\ text2 # <<>>
                          /\ cache_key(text1, text2) \notin CachedKeys(similarity_cache)
                       THEN {<<text1, text2>>}
                       ELSE {}
          IN  \E answers \in [UnknownPairs(wratio_of, asked) -> WVals] :
                 \E returned \in {calculate_enhanced_similarity(
                                      similarity_cache, answers @@ wratio_of, text1, text2)} :
                     /\ wratio_of' = answers @@ wratio_of
                     /\ similarity_cache' = returned.cache
                     /\ call' = [done |-> TRUE, text1 |-> text1, text2 |-> text2,
                                 hit |-> returned.hit, value |-> returned.value]
    /\ entry' = "calculate_enhanced_similarity"
    /\ UNCHANGED <<pc, transcribed_text, original_transcript, result, final_text, status,
                   accuracy, validation, boost_calls, files_done, hash_of>>

NextCache == Enter_calculate_enhanced_similarity_near_cap

SpecCache == InitCache /\ [][NextCache]_vars

-----------------------------------------------------------------------------
(* The cache bound, checked under SpecCache *)

\* C13: after every call the cache holds at most 3000 entries.  A call that
\* stores its score in a cache of 3000 entries, which makes 3001, removes the
\* 500 entries stored first and keeps the other 2500 and the new entry, 2501
\* in all; any other call removes nothing: the entries held before the call
\* are held after it, in their order, followed by the new entry if one was
\* stored.
C13_CacheBound ==
    /\ [](Len(similarity_cache) <= 3000)
    /\ [][LET before == similarity_cache
              after == similarity_cache'
              stores == /\ call'.text1 # <<>>
                        /\ call'.text2 # <<>>
                        /\ cache_key(call'.text1, call'.text2) \notin CachedKeys(before)
              entered == [key |-> cache_key(call'.text1, call'.text2),
                          value |-> call'.value]
          IN  IF stores /\ Len(before) + 1 = 3001
              THEN /\ Len(after) = 2501
                   /\ after = SubSeq(before, 501, 3000) \o <<entered>>
              ELSE /\ Len(after) = Len(before) + (IF stores THEN 1 ELSE 0)
                   /\ SubSeq(after, 1, Len(before)) = before
                   /\ stores => after[Len(after)] = entered]_vars

\* the call that has just cut a cache of 3001 entries down to 2501: the entry
\* of hash -501 is now the oldest, the entry of the call the newest
C13_Witness ==
    /\ call.done
    /\ ~call.hit
    /\ Len(similarity_cache) = 2501
    /\ similarity_cache[1].key = <<-501, -501>>
    /\ similarity_cache[2501].key = cache_key(call.text1, call.text2)
    /\ similarity_cache[2501].value = call.value

====
